---- MODULE Spec2Model ----
(***************************************************************************)
(* A model of Lab_Agent.py: the smartphone environment, the price and      *)
(* inventory monitors, the ordering controller, the agent and the          *)
(* simulation loop.                                                         *)
(*                                                                         *)
(* Numbers.  Prices and noise draws are integers.  average_price is an     *)
(* exact rational [num, den] (den a power of ten), so the smoothing update *)
(* and the comparisons against it are computed without rounding.           *)
(* Probabilities and the uniform draw are counted in tenths.               *)
(***************************************************************************)
EXTENDS Integers, Sequences, FiniteSets

VARIABLES
    time,           \* SmartphoneEnvironment.time
    stock,          \* SmartphoneEnvironment.stock
    price,          \* SmartphoneEnvironment.price
    stock_history,  \* SmartphoneEnvironment.stock_history
    price_history,  \* SmartphoneEnvironment.price_history
    average_price,  \* SmartphoneAgent.average_price, a rational [num, den]
    buy_history,    \* SmartphoneAgent.buy_history
    total_spent,    \* SmartphoneAgent.total_spent
    percept,        \* Simulation.percept, [price, stock]
    action,         \* the local `action` of Simulation.run, [buy]
    pc,             \* where Simulation.run stands: "idle", "loop", "env", "raised"
    steps,          \* the argument of the current (or last) run call
    step,           \* the loop variable of run: iterations completed in this call
    runs,           \* number of run calls that have returned
    error,          \* the exception that ended the program, or "none"
    tape,           \* the <<daily_sales, noise>> pairs the random generator has given,
                    \* followed by those a seeded generator is still to give
    budget,         \* loop iterations (or direct do_action calls) the model still admits
    call,           \* a direct call of a pure function and its arguments
    ret             \* the result of that call, [done] or [done, value]

envVars   == <<time, stock, price, stock_history, price_history>>
agentVars == <<average_price, buy_history, total_spent>>
simVars   == <<percept, action, pc, steps, step, runs, error>>
genVars   == <<tape, budget>>
fnVars    == <<call, ret>>
vars      == <<envVars, agentVars, simVars, genVars, fnVars>>

----------------------------------------------------------------------------
(* Bounds of the model *)

\* total loop iterations over all run calls
MaxSteps == 3
\* run calls on one Simulation
MaxRuns == 2
\* loop iterations after a seeded start that has drained the stock
MaxRestockSteps == 1

\* the values random.gauss(0, noise_sd) is drawn from
NoiseDraws == {-160, 0, 40}
\* the values random.random() is drawn from, in tenths: 0.0, 0.1, ..., 0.9
UniformDraws == 0 .. 9

\* seeded starts of the generator: five days without noise that sell
\* 10, 10, 10, 10 and then d units, which leaves a stock of 10 - d
DrainScripts ==
    { << <<10, 0>>, <<10, 0>>, <<10, 0>>, <<10, 0>>, <<d, 0>> >> : d \in {3, 5, 7, 10} }

----------------------------------------------------------------------------
(* Rationals *)

Rat(n, d) == [num |-> n, den |-> d]

RECURSIVE Norm(_, _)
Norm(n, d) == IF d > 1 /\ n % 10 = 0 THEN Norm(n \div 10, d \div 10) ELSE Rat(n, d)

Max(a, b) == IF a >= b THEN a ELSE b

RECURSIVE GCD(_, _)
GCD(a, b) == IF b = 0 THEN a ELSE GCD(b, a % b)

----------------------------------------------------------------------------
(* select_from_dist *)

\* {3: 0.2, 5: 0.3, 7: 0.3, 10: 0.2}, in the dict's insertion order, in tenths
DemandDist == << <<3, 2>>, <<5, 3>>, <<7, 3>>, <<10, 2>> >>

\* the for loop of select_from_dist from entry i on, with the running ranreal
RECURSIVE WalkDist(_, _, _)
WalkDist(item_prob_dist, ranreal, i) ==
    IF i > Len(item_prob_dist)
    THEN [raised |-> TRUE]
    ELSE IF ranreal < item_prob_dist[i][2]
         THEN [raised |-> FALSE, item |-> item_prob_dist[i][1]]
         ELSE WalkDist(item_prob_dist, ranreal - item_prob_dist[i][2], i + 1)

\* the walk without `ranreal -= prob`
RECURSIVE WalkDistNoSubtract(_, _, _)
WalkDistNoSubtract(item_prob_dist, ranreal, i) ==
    IF i > Len(item_prob_dist)
    THEN [raised |-> TRUE]
    ELSE IF ranreal < item_prob_dist[i][2]
         THEN [raised |-> FALSE, item |-> item_prob_dist[i][1]]
         ELSE WalkDistNoSubtract(item_prob_dist, ranreal, i + 1)

\* the last item returned where the walk is exhausted
SelectReturnsLast(item_prob_dist, ranreal) ==
    LET r == WalkDist(item_prob_dist, ranreal, 1)
    IN IF r.raised
       THEN [raised |-> FALSE, item |-> item_prob_dist[Len(item_prob_dist)][1]]
       ELSE r

SelectWithoutSubtract(item_prob_dist, ranreal) == WalkDistNoSubtract(item_prob_dist, ranreal, 1)

select_from_dist(item_prob_dist, ranreal) == WalkDist(item_prob_dist, ranreal, 1)

----------------------------------------------------------------------------
(* SmartphoneEnvironment *)

price_delta == <<10, -80, 20, -60, 5, 50, -100, 30, -20, 0>>

PriceFloor == 100

\* the stock left to go below zero
UnclampedStock(s) == s

ClampStock(s) == Max(0, s)

\* the price floor left out
UnclampedPrice(p) == p

ClampPrice(p) == Max(PriceFloor, p)

initial_percept == [price |-> price, stock |-> stock]

\* the delta indexed by the time before the increment
PriceDeltaBefore(t) == price_delta[((t - 1) % Len(price_delta)) + 1]

\* self.price_delta[self.time % len(self.price_delta)], a 0-based index
PriceDeltaAt(t) == price_delta[(t % Len(price_delta)) + 1]

----------------------------------------------------------------------------
(* Controllers *)

DefaultDiscountThreshold == 20

DefaultLowStockThreshold == 10

\* the price compared with the average itself, the threshold forgotten
PriceMonitorNoThreshold(current_price, discount_threshold, avg) ==
    current_price * avg.den < avg.num

\* a price at the bound counted as a discount
PriceMonitorInclusive(current_price, discount_threshold, avg) ==
    LET g == GCD(100, 100 - discount_threshold)
    IN current_price * (100 \div g) * avg.den <= ((100 - discount_threshold) \div g) * avg.num

\* PriceMonitoringController.monitor; discount_threshold in percent, at most 100
\* current_price < (1 - discount_threshold) * average_price, with the factor
\* (100 - discount_threshold) / 100 in lowest terms
PriceMonitor(current_price, discount_threshold, avg) ==
    LET g == GCD(100, 100 - discount_threshold)
    IN current_price * (100 \div g) * avg.den < ((100 - discount_threshold) \div g) * avg.num

\* a stock at the threshold counted as low
InventoryMonitorInclusive(percept_stock, threshold) == percept_stock <= threshold

\* InventoryMonitoringController.monitor
InventoryMonitor(percept_stock, threshold) == percept_stock < threshold

\* Python's int() of the rational a / b, b > 0: truncation toward zero
IntOf(a, b) == IF a >= 0 THEN a \div b ELSE -((-a) \div b)

BaseOrder == 15

RestockQuantity == 10

\* the discount branch taken whenever there is a discount
OrderDiscountFirst(current_price, price_discount, low_stock, avg) ==
    IF price_discount
    THEN IntOf(15 * (avg.num + (avg.num - current_price * avg.den)), avg.num)
    ELSE IF low_stock
         THEN 10
         ELSE 0

\* the low-stock branch left out
OrderWithoutRestock(current_price, price_discount, low_stock, avg) ==
    IF price_discount /\ ~low_stock
    THEN IntOf(BaseOrder * (avg.num + (avg.num - current_price * avg.den)), avg.num)
    ELSE 0

\* the quantity rounded down instead of truncated
OrderFloored(current_price, price_discount, low_stock, avg) ==
    IF price_discount /\ ~low_stock
    THEN (15 * (avg.num + (avg.num - current_price * avg.den))) \div avg.num
    ELSE IF low_stock
         THEN 10
         ELSE 0

\* OrderingController.order, for a positive average price;
\* 15 * (1 + (avg - p) / avg) is the rational 15 * (avg.num + avg.num - p * avg.den) / avg.num
order(current_price, price_discount, low_stock, avg) ==
    IF price_discount /\ ~low_stock
    THEN IntOf(BaseOrder * (avg.num + (avg.num - current_price * avg.den)), avg.num)
    ELSE IF low_stock
         THEN RestockQuantity
         ELSE 0

----------------------------------------------------------------------------
(* SmartphoneAgent *)

Alpha == 10

\* the correction assigned to the average instead of added to it
SmoothOverwritten(avg, current_price) ==
    Norm(current_price * avg.den - avg.num, avg.den * Alpha)

\* average_price += (current_price - average_price) * 0.1
Smooth(avg, current_price) ==
    Norm(avg.num * Alpha + (current_price * avg.den - avg.num), avg.den * Alpha)

\* the units charged without their price
ChargeUnitsOnly(tobuy, current_price) == tobuy

\* what select_action charges for tobuy units
Charge(tobuy, current_price) == tobuy * current_price

\* the charge assigned to the total instead of added to it
SpentOverwritten(total, tobuy, current_price) == Charge(tobuy, current_price)

\* self.total_spent += tobuy * current_price
Spent(total, tobuy, current_price) == total + Charge(tobuy, current_price)

\* only purchases recorded
RecordedIfBought(history, tobuy) == IF tobuy > 0 THEN Append(history, tobuy) ELSE history

\* self.buy_history.append(tobuy)
Recorded(history, tobuy) == Append(history, tobuy)

----------------------------------------------------------------------------
(* Simulation *)

NoCall == [fn |-> "none"]
NoRet  == [done |-> FALSE]

\* SmartphoneEnvironment(), SmartphoneAgent() without its average_price,
\* Simulation(agent, environment), and no run call made yet
Constructed ==
    /\ time = 0
    /\ stock = 50
    /\ price = 600
    /\ stock_history = <<50>>
    /\ price_history = <<600>>
    /\ buy_history = <<>>
    /\ total_spent = 0
    /\ percept = initial_percept
    /\ action = [buy |-> 0]
    /\ pc = "idle"
    /\ steps = 0
    /\ step = 0
    /\ runs = 0
    /\ error = "none"

\* the generator is free (an empty tape) or seeded with a draining start
Init ==
    /\ Constructed
    /\ average_price = Rat(600, 1)
    /\ tape \in {<<>>} \cup DrainScripts
    /\ budget = IF tape = <<>> THEN MaxSteps ELSE Len(tape) + MaxRestockSteps
    /\ call = NoCall
    /\ ret = NoRet

\* one iteration too many
LoopContinuesInclusive(i, n) == i <= n

\* a loop that runs until the counter equals the bound
LoopContinuesUntilEqual(i, n) == i # n

\* range(steps) still has a value for the loop variable
LoopContinues(i, n) == i < n

\* the iterations done so far, over all run calls
Iterations == Len(buy_history)

\* every run starting again from the percept of a new environment
RunCallFromFirstPercept(n) ==
    /\ pc = "idle"
    /\ runs < MaxRuns
    /\ Max(0, n) <= budget
    /\ budget' = budget - Max(0, n)
    /\ steps' = n
    /\ step' = 0
    /\ percept' = [price |-> 600, stock |-> 50]
    /\ pc' = "loop"
    /\ UNCHANGED <<envVars, agentVars, action, runs, error, tape, fnVars>>

\* simulation.run(n) is called
RunCall(n) ==
    /\ pc = "idle"
    /\ runs < MaxRuns
    /\ Max(0, n) <= budget
    /\ budget' = budget - Max(0, n)
    /\ steps' = n
    /\ step' = 0
    /\ pc' = "loop"
    /\ UNCHANGED <<envVars, agentVars, percept, action, runs, error, tape, fnVars>>

\* the agent adding its order to the environment's stock itself
SelectActionRestocks ==
    /\ pc = "loop"
    /\ LoopContinues(step, steps)
    /\ LET current_price  == percept.price
           avg            == Smooth(average_price, current_price)
           price_discount == PriceMonitor(current_price, DefaultDiscountThreshold, avg)
           low_stock      == InventoryMonitor(percept.stock, DefaultLowStockThreshold)
           tobuy          == order(current_price, price_discount, low_stock, avg)
       IN /\ average_price' = avg
          /\ total_spent' = Spent(total_spent, tobuy, current_price)
          /\ buy_history' = Recorded(buy_history, tobuy)
          /\ action' = [buy |-> tobuy]
          /\ stock' = stock + tobuy
    /\ pc' = "env"
    /\ UNCHANGED <<time, price, stock_history, price_history, percept, steps, step,
                   runs, error, genVars, fnVars>>

\* the monitors and the order evaluated before the average is updated
SelectActionStaleAverage ==
    /\ pc = "loop"
    /\ LoopContinues(step, steps)
    /\ LET current_price  == percept.price
           price_discount == PriceMonitor(current_price, DefaultDiscountThreshold, average_price)
           low_stock      == InventoryMonitor(percept.stock, DefaultLowStockThreshold)
           tobuy          == order(current_price, price_discount, low_stock, average_price)
       IN /\ average_price' = Smooth(average_price, current_price)
          /\ total_spent' = Spent(total_spent, tobuy, current_price)
          /\ buy_history' = Recorded(buy_history, tobuy)
          /\ action' = [buy |-> tobuy]
    /\ pc' = "env"
    /\ UNCHANGED <<envVars, percept, steps, step, runs, error, genVars, fnVars>>

\* action = self.agent.select_action(self.percept)
SelectAction ==
    /\ pc = "loop"
    /\ LoopContinues(step, steps)
    /\ LET current_price  == percept.price
           avg            == Smooth(average_price, current_price)
           price_discount == PriceMonitor(current_price, DefaultDiscountThreshold, avg)
           low_stock      == InventoryMonitor(percept.stock, DefaultLowStockThreshold)
           tobuy          == order(current_price, price_discount, low_stock, avg)
       IN /\ average_price' = avg
          /\ total_spent' = Spent(total_spent, tobuy, current_price)
          /\ buy_history' = Recorded(buy_history, tobuy)
          /\ action' = [buy |-> tobuy]
    /\ pc' = "env"
    /\ UNCHANGED <<envVars, percept, steps, step, runs, error, genVars, fnVars>>

\* a seeded generator gives the next pair of the tape, a free one gives any
Given(daily_sales, noise) ==
    time < Len(tape) => <<daily_sales, noise>> = tape[time + 1]

\* the pair just given is on the tape
Taped(daily_sales, noise) ==
    tape' = IF time < Len(tape) THEN tape ELSE Append(tape, <<daily_sales, noise>>)

\* bought = action.get("buy", 0)
Bought(a) == IF "buy" \in DOMAIN a THEN a.buy ELSE 0

\* the assignments of do_action to the environment, for the action a and the draws
EnvUpdate(a, daily_sales, noise) ==
    LET newStock == ClampStock(stock + Bought(a) - daily_sales)
        newTime  == time + 1
        newPrice == ClampPrice(price + PriceDeltaAt(newTime) + noise)
    IN /\ stock' = newStock
       /\ time' = newTime
       /\ price' = newPrice
       /\ stock_history' = Append(stock_history, newStock)
       /\ price_history' = Append(price_history, newPrice)

\* return {"price": self.price, "stock": self.stock}
NewPercept == [price |-> price', stock |-> stock']

\* self.percept = self.environment.do_action(action)
DoAction ==
    /\ pc = "env"
    /\ \E ranreal \in UniformDraws, noise \in NoiseDraws :
         LET drawn == select_from_dist(DemandDist, ranreal)
         IN IF drawn.raised
            THEN /\ pc' = "raised"
                 /\ error' = "RuntimeError"
                 /\ UNCHANGED <<envVars, percept, step, tape>>
            ELSE /\ Given(drawn.item, noise)
                 /\ Taped(drawn.item, noise)
                 /\ EnvUpdate(action, drawn.item, noise)
                 /\ percept' = NewPercept
                 /\ step' = step + 1
                 /\ pc' = "loop"
                 /\ error' = error
    /\ UNCHANGED <<agentVars, action, steps, runs, budget, fnVars>>

\* range(steps) is exhausted: run returns
RunReturn ==
    /\ pc = "loop"
    /\ ~LoopContinues(step, steps)
    /\ pc' = "idle"
    /\ runs' = runs + 1
    /\ UNCHANGED <<envVars, agentVars, percept, action, steps, step, error, genVars, fnVars>>

Next ==
    \/ \E n \in -1 .. budget : RunCall(n)
    \/ SelectAction
    \/ DoAction
    \/ RunReturn

Spec == Init /\ [][Next]_vars

\* run is sequential code: once called, each of its steps is taken
FairSpec ==
    Spec /\ WF_vars(SelectAction) /\ WF_vars(DoAction) /\ WF_vars(RunReturn)

----------------------------------------------------------------------------
(* Direct calls of the pure functions, as a unit test makes them: the      *)
(* arguments are drawn at the start, one action applies the function.      *)

\* longest probability table passed to select_from_dist
MaxDistLen == 3
\* largest stock shown to the inventory monitor
MaxStockInput == 12

PriceInputs == {100, 250, 450, 479, 480, 481, 560, 600}
AvgInputs == {Rat(100, 1), Rat(600, 1), Rat(5658, 10), Rat(59987, 100)}
\* discount_threshold of PriceMonitoringController, in percent
DiscountThresholdInputs == {-10, 0, 20, 50}
\* threshold of InventoryMonitoringController
LowStockThresholdInputs == {0, 5, 10}
\* probabilities of a table, in tenths
ProbInputs == {0, 2, 5, 10}
ItemInputs == {"A", "B", "C", "D"}

\* tables with distinct keys, in insertion order
DistInputs ==
    UNION { { d \in [1 .. n -> ItemInputs \X ProbInputs] :
                \A i, j \in 1 .. n : i # j => d[i][1] # d[j][1] } : n \in 1 .. MaxDistLen }

InitFn ==
    /\ Constructed
    /\ tape = <<>>
    /\ budget = 0
    /\ ret = NoRet
    /\ \/ /\ average_price \in AvgInputs
          /\ call \in [fn : {"order"}, price : PriceInputs,
                        price_discount : BOOLEAN, low_stock : BOOLEAN]
       \/ /\ average_price \in AvgInputs
          /\ call \in [fn : {"price_monitor"}, price : PriceInputs,
                        discount_threshold : DiscountThresholdInputs]
       \/ /\ average_price = Rat(600, 1)
          /\ call \in [fn : {"inventory_monitor"}, stock : 0 .. MaxStockInput,
                        threshold : LowStockThresholdInputs]
       \/ /\ average_price = Rat(600, 1)
          /\ call \in [fn : {"select_from_dist"}, dist : DistInputs,
                        ranreal : UniformDraws]
       \/ /\ average_price = Rat(600, 1)
          /\ call \in [fn : {"daily_sales"}, ranreal : UniformDraws]

Returns(v) == ret' = [done |-> TRUE, value |-> v]

\* ordering_controller.order(percept, price_discount, low_stock)
CallOrder ==
    /\ call.fn = "order"
    /\ ~ret.done
    /\ Returns(order(call.price, call.price_discount, call.low_stock, average_price))
    /\ UNCHANGED <<envVars, agentVars, simVars, genVars, call>>

\* price_controller.monitor(percept)
CallPriceMonitor ==
    /\ call.fn = "price_monitor"
    /\ ~ret.done
    /\ Returns(PriceMonitor(call.price, call.discount_threshold, average_price))
    /\ UNCHANGED <<envVars, agentVars, simVars, genVars, call>>

\* inventory_controller.monitor(percept)
CallInventoryMonitor ==
    /\ call.fn = "inventory_monitor"
    /\ ~ret.done
    /\ Returns(InventoryMonitor(call.stock, call.threshold))
    /\ UNCHANGED <<envVars, agentVars, simVars, genVars, call>>

\* select_from_dist(item_prob_dist), with the value random.random() gave
CallSelectFromDist ==
    /\ call.fn = "select_from_dist"
    /\ ~ret.done
    /\ Returns(select_from_dist(call.dist, call.ranreal))
    /\ UNCHANGED <<envVars, agentVars, simVars, genVars, call>>

\* daily_sales = select_from_dist({3: 0.2, 5: 0.3, 7: 0.3, 10: 0.2})
CallDailySales ==
    /\ call.fn = "daily_sales"
    /\ ~ret.done
    /\ Returns(select_from_dist(DemandDist, call.ranreal))
    /\ UNCHANGED <<envVars, agentVars, simVars, genVars, call>>

NextFn ==
    \/ CallOrder
    \/ CallPriceMonitor
    \/ CallInventoryMonitor
    \/ CallSelectFromDist
    \/ CallDailySales

SpecFn == InitFn /\ [][NextFn]_vars

----------------------------------------------------------------------------
(* Direct calls of do_action on a freshly constructed environment, with    *)
(* actions the caller makes up.                                            *)

\* calls made with free draws once the script is used up
MaxEnvFree == 1

\* an action with a 'buy' entry and one without
ActionInputs == {[buy |-> 10], [hold |-> 1]}

\* a seeded generator: demand 10 on every call, the price pushed down to the
\* floor during the first calls, and a tenth call where time wraps around
\* price_delta
EnvScript ==
    << <<10, -160>>, <<10, -160>>, <<10, -160>>, <<10, 0>>, <<10, 0>>,
       <<10, 0>>, <<10, 0>>, <<10, 0>>, <<10, 0>>, <<10, 40>> >>

InitEnv ==
    /\ Constructed
    /\ average_price = Rat(600, 1)
    /\ tape \in {<<>>, EnvScript}
    /\ budget = Len(tape) + MaxEnvFree
    /\ call = NoCall
    /\ ret = NoRet

\* environment.do_action(a)
CallDoAction(a) ==
    /\ budget > 0
    /\ \E ranreal \in UniformDraws, noise \in NoiseDraws :
         LET drawn == select_from_dist(DemandDist, ranreal)
         IN IF drawn.raised
            THEN /\ error' = "RuntimeError"
                 /\ ret' = NoRet
                 /\ UNCHANGED <<envVars, tape>>
            ELSE /\ Given(drawn.item, noise)
                 /\ Taped(drawn.item, noise)
                 /\ EnvUpdate(a, drawn.item, noise)
                 /\ Returns(NewPercept)
                 /\ error' = error
    /\ call' = [fn |-> "do_action", action |-> a]
    /\ budget' = budget - 1
    /\ UNCHANGED <<agentVars, percept, action, pc, steps, step, runs>>

NextEnv == \E a \in ActionInputs : CallDoAction(a)

SpecEnv == InitEnv /\ [][NextEnv]_vars

----------------------------------------------------------------------------
(* Properties of the simulation *)

\* C1: every entry of stock_history is >= 0 and every entry of price_history
\* is >= the price floor 100, in every reachable state.
C1_HistoriesAboveFloors ==
    /\ \A i \in 1 .. Len(stock_history) : stock_history[i] >= 0
    /\ \A i \in 1 .. Len(price_history) : price_history[i] >= 100

\* a recorded price of 100 that no noise draw gives unclamped: the floor acted
C1_Witness ==
    \E k \in 1 .. Len(price_history) - 1 :
        /\ price_history[k + 1] = 100
        /\ \A n \in NoiseDraws : price_history[k] + PriceDeltaAt(k) + n # 100

\* C2: in the initial state and after every completed iteration the two
\* environment histories have one entry more than buy_history; between the
\* agent's decision and the environment's advance, and only there, they have
\* as many entries as buy_history.
C2_HistoryLengths ==
    /\ Len(price_history) = Len(stock_history)
    /\ pc # "env" => Len(stock_history) = Len(buy_history) + 1
    /\ pc = "env" => Len(stock_history) = Len(buy_history)

C2_Witness ==
    /\ pc = "env"
    /\ step >= 1
    /\ Len(buy_history) = Len(stock_history)

\* C3: run(steps) with steps >= 0 on a fresh Simulation returns, and when it
\* has returned it has made exactly `steps` iterations: buy_history has
\* `steps` entries and both environment histories have steps + 1.
C3_RunMakesExactlySteps ==
    /\ []((pc = "idle" /\ runs = 1 /\ steps >= 0) =>
             /\ step = steps
             /\ Len(buy_history) = steps
             /\ Len(price_history) = steps + 1
             /\ Len(stock_history) = steps + 1)
    /\ (pc = "loop" /\ runs = 0) ~> (pc = "idle" /\ runs = 1)

C3_Witness ==
    /\ pc = "idle"
    /\ runs = 1
    /\ steps >= 2
    /\ Len(buy_history) = steps

RECURSIVE SpentUpTo(_)
\* sum of buy_history[i] * price_history[i] over the first n decisions
SpentUpTo(n) ==
    IF n = 0 THEN 0 ELSE SpentUpTo(n - 1) + buy_history[n] * price_history[n]

\* C4: after every completed iteration total_spent is the sum over the
\* completed steps i of buy_history[i] * price_history[i].
C4_TotalSpentFromHistories ==
    pc \in {"loop", "idle"} => total_spent = SpentUpTo(Len(buy_history))

\* two purchases at two different prices
C4_Witness ==
    /\ pc = "loop"
    /\ \E i, j \in 1 .. Len(buy_history) :
          /\ buy_history[i] > 0
          /\ buy_history[j] > 0
          /\ price_history[i] # price_history[j]

\* C10 as stated: a run call with a non-positive step count does not return
\* normally, it ends in an InvalidConfiguration error.
C10_Original ==
    (pc = "idle" /\ runs > 0 /\ steps <= 0) => error = "InvalidConfiguration"

\* C10 as amended: run(steps) with steps <= 0 raises nothing and returns
\* before any loop iteration, with no change to agent or environment state.
C10_NonPositiveStepsReturn ==
    [][/\ (pc = "idle" /\ pc' = "loop" /\ steps' <= 0) =>
            /\ error' = "none"
            /\ UNCHANGED <<envVars, agentVars, percept>>
       /\ (pc = "loop" /\ steps <= 0) =>
            /\ pc' = "idle"
            /\ runs' = runs + 1
            /\ error' = "none"
            /\ UNCHANGED <<envVars, agentVars, percept>>]_vars

C10_Witness ==
    /\ pc = "idle"
    /\ runs = 1
    /\ steps < 0
    /\ error = "none"
    /\ buy_history = <<>>
    /\ price_history = <<600>>

\* C12: in each select_action the average is smoothed first, and the discount
\* test and the order quantity use that updated average.
C12_DecisionUsesUpdatedAverage ==
    [][(pc = "loop" /\ pc' = "env") =>
         /\ average_price' = Smooth(average_price, percept.price)
         /\ action'.buy =
              order(percept.price,
                    PriceMonitor(percept.price, 20, average_price'),
                    InventoryMonitor(percept.stock, 10),
                    average_price')]_vars

\* price 360 against the average 600: the updated average 576 gives
\* int(15 * 1.375) = 20, the average of the step before would give 21
C12_Witness ==
    /\ pc = "env"
    /\ Len(buy_history) = 2
    /\ percept.price = 360
    /\ average_price = Rat(576, 1)
    /\ action.buy = 20

\* C15: select_action leaves the environment's time, stock, price and two
\* histories unchanged, and do_action leaves the agent's average_price,
\* total_spent and buy_history unchanged.
C15_AgentAndEnvironmentDisjoint ==
    [][/\ (pc = "loop" /\ pc' = "env") =>
            /\ time' = time
            /\ stock' = stock
            /\ price' = price
            /\ stock_history' = stock_history
            /\ price_history' = price_history
       /\ pc = "env" =>
            /\ average_price' = average_price
            /\ total_spent' = total_spent
            /\ buy_history' = buy_history]_vars

\* select_action has ordered and charged, the stock is still the one of the
\* percept; the do_action before it changed the environment only
C15_Witness ==
    /\ pc = "env"
    /\ time = 1
    /\ Len(price_history) = 2
    /\ Len(buy_history) = 2
    /\ action.buy > 0
    /\ total_spent = action.buy * percept.price
    /\ stock = percept.stock
    /\ stock = stock_history[2]

\* C16: total_spent is never negative and no step of the simulation
\* decreases it.
C16_TotalSpentMonotone ==
    /\ [](total_spent >= 0)
    /\ [][total_spent' >= total_spent]_vars

\* two purchases in a row: the total is the sum of both charges
C16_Witness ==
    /\ Len(buy_history) = 3
    /\ buy_history[2] > 0
    /\ buy_history[3] > 0
    /\ total_spent = buy_history[2] * price_history[2] + buy_history[3] * price_history[3]
    /\ total_spent > buy_history[3] * price_history[3]

\* C17: in the simulation loop stock + buy - daily_demand is never negative,
\* whatever demand is drawn, so the zero clamp never changes the stock; a
\* step that starts with the stock below 10 does not decrease it.
C17_StockClampNeverActive ==
    /\ [](pc = "env" => \A daily_sales \in {3, 5, 7, 10} :
                            stock + action.buy - daily_sales >= 0)
    /\ [][(pc = "env" /\ pc' = "loop") =>
             /\ stock' = stock + action.buy - tape'[time'][1]
             /\ stock < 10 => stock' >= stock]_vars

\* the sixth step starts with an empty stock, orders 10 and meets a demand
\* of 10: 0 + 10 - 10 = 0
C17_Witness ==
    /\ pc = "loop"
    /\ time = 6
    /\ stock_history[6] = 0
    /\ buy_history[6] = 10
    /\ tape[6][1] = 10
    /\ stock = 0

\* C18: every quantity recorded in buy_history during a simulation is 0, 10
\* or between 18 and 29.
C18_OrdersInRange ==
    \A i \in 1 .. Len(buy_history) : buy_history[i] \in {0, 10} \cup 18 .. 29

\* no order at 600, then discount orders at 360 and at 220
C18_Witness ==
    /\ price_history = <<600, 360, 220>>
    /\ buy_history = <<0, 20, 23>>

\* C19: average_price is at least the price floor 100 in every state of the
\* simulation, so the discount ratio never divides by zero.
C19_AverageAboveFloor ==
    /\ average_price.den > 0
    /\ average_price.num >= 100 * average_price.den

\* the average after the prices 600, 360 and 220, divided by in the order
\* of 23 units
C19_Witness ==
    /\ Len(buy_history) = 3
    /\ percept.price = 220
    /\ average_price = Rat(5404, 10)
    /\ buy_history[3] = 23

\* agent, environment and percept after one run of n iterations on a new
\* simulation, with the draws tape[1 .. n]
RECURSIVE SingleRun(_)

SingleRun(n) ==
    IF n = 0
    THEN [time |-> 0, stock |-> 50, price |-> 600,
          stock_history |-> <<50>>, price_history |-> <<600>>,
          average_price |-> Rat(600, 1), buy_history |-> <<>>, total_spent |-> 0,
          percept |-> [price |-> 600, stock |-> 50]]
    ELSE LET s        == SingleRun(n - 1)
             p        == s.percept.price
             avg      == Smooth(s.average_price, p)
             tobuy    == order(p, PriceMonitor(p, 20, avg),
                               InventoryMonitor(s.percept.stock, 10), avg)
             newStock == Max(0, s.stock + tobuy - tape[n][1])
             newPrice == Max(100, s.price + price_delta[(n % 10) + 1] + tape[n][2])
         IN [time |-> n, stock |-> newStock, price |-> newPrice,
             stock_history |-> Append(s.stock_history, newStock),
             price_history |-> Append(s.price_history, newPrice),
             average_price |-> avg,
             buy_history |-> Append(s.buy_history, tobuy),
             total_spent |-> s.total_spent + tobuy * p,
             percept |-> [price |-> newPrice, stock |-> newStock]]

\* C20: between calls of run the simulation is in the state a single run of
\* all the iterations made so far leaves under the same draws: run(a) then
\* run(b) ends as run(a + b), nothing is restarted or reset by the second call.
C20_TwoRunsAsOne ==
    pc = "idle" =>
        LET s == SingleRun(time)
        IN /\ time = Len(buy_history)
           /\ stock = s.stock
           /\ price = s.price
           /\ stock_history = s.stock_history
           /\ price_history = s.price_history
           /\ average_price = s.average_price
           /\ buy_history = s.buy_history
           /\ total_spent = s.total_spent
           /\ percept = s.percept

\* run(2) then run(1): the third decision is made on the price 220 the
\* first call ended with
C20_Witness ==
    /\ pc = "idle"
    /\ runs = 2
    /\ steps = 1
    /\ time = 3
    /\ price_history[3] = 220
    /\ buy_history = <<0, 20, 23>>

----------------------------------------------------------------------------
(* Properties of the pure functions *)

\* C5: order returns exactly 10 whenever low_stock is true, whatever
\* price_discount, the percept price and the average price are.
C5_LowStockOrdersTen ==
    (call.fn = "order" /\ ret.done /\ call.low_stock) => ret.value = 10

\* low stock together with a discount flag and a price that is a discount
C5_Witness ==
    /\ call.fn = "order"
    /\ ret.done
    /\ call.low_stock
    /\ call.price_discount
    /\ call.price = 450
    /\ average_price = Rat(600, 1)
    /\ ret.value = 10

\* 15 * (1 + (average - price) / average) as numerator over average_price.num
ScaledOrderNum == 15 * (2 * average_price.num - call.price * average_price.den)

\* C6 as stated: with price_discount and not low_stock, order returns the
\* floor of 15 * (1 + (average - price) / average).
C6_Original ==
    (call.fn = "order" /\ ret.done /\ call.price_discount /\ ~call.low_stock) =>
        /\ ret.value * average_price.num <= ScaledOrderNum
        /\ ScaledOrderNum < (ret.value + 1) * average_price.num

\* C6 as amended: the result is that quantity truncated toward zero: its
\* floor when the quantity is >= 0 (so whenever price <= 2 * average), its
\* ceiling when it is negative.
C6_OrderTruncates ==
    (call.fn = "order" /\ ret.done /\ call.price_discount /\ ~call.low_stock) =>
        IF ScaledOrderNum >= 0
        THEN /\ ret.value * average_price.num <= ScaledOrderNum
             /\ ScaledOrderNum < (ret.value + 1) * average_price.num
        ELSE /\ (ret.value - 1) * average_price.num < ScaledOrderNum
             /\ ScaledOrderNum <= ret.value * average_price.num

\* price 250 against average 100: 15 * (1 - 1.5) = -7.5 gives -7
C6_Witness ==
    /\ call.fn = "order"
    /\ ret.done
    /\ call.price_discount
    /\ ~call.low_stock
    /\ call.price = 250
    /\ average_price = Rat(100, 1)
    /\ ret.value = -7

\* C7: monitor returns true iff price < (1 - discount_threshold) * average_price,
\* false at equality, and changes no agent or environment state.
C7_PriceMonitorStrict ==
    [][(call.fn = "price_monitor" /\ ~ret.done /\ ret'.done) =>
         /\ ret'.value = TRUE <=>
               call.price * 100 * average_price.den
                 + call.discount_threshold * average_price.num
                   < 100 * average_price.num
         /\ call.price * 100 * average_price.den
                 + call.discount_threshold * average_price.num
                   = 100 * average_price.num => ret'.value = FALSE
         /\ UNCHANGED <<envVars, agentVars, percept, action>>]_vars

\* price 480 against average 600 with threshold 0.2: exactly the bound
C7_Witness ==
    /\ call.fn = "price_monitor"
    /\ ret.done
    /\ call.price = 480
    /\ call.discount_threshold = 20
    /\ average_price = Rat(600, 1)
    /\ ret.value = FALSE

\* C8: monitor returns true iff stock < threshold; stock 10 against
\* threshold 10 is false, stock 9 is true.
C8_InventoryMonitorStrict ==
    (call.fn = "inventory_monitor" /\ ret.done) =>
        /\ ret.value = TRUE <=> call.stock < call.threshold
        /\ (call.stock = 10 /\ call.threshold = 10) => ret.value = FALSE
        /\ (call.stock = 9 /\ call.threshold = 10) => ret.value = TRUE

C8_Witness ==
    /\ call.fn = "inventory_monitor"
    /\ ret.done
    /\ call.stock = 10
    /\ call.threshold = 10
    /\ ret.value = FALSE

RECURSIVE CumProb(_, _)
\* sum of the probabilities of the first i entries
CumProb(dist, i) == IF i = 0 THEN 0 ELSE CumProb(dist, i - 1) + dist[i][2]

\* the entries whose cumulative probability exceeds the draw
Exceeding(dist, u) == {i \in 1 .. Len(dist) : CumProb(dist, i) > u}

\* C9: select_from_dist returns the first outcome, in table order, whose
\* cumulative probability strictly exceeds the draw; {A: 1.0} gives A.
C9_FirstCumulativeExceeds ==
    (call.fn = "select_from_dist" /\ ret.done) =>
        /\ Exceeding(call.dist, call.ranreal) # {} =>
              /\ ~ret.value.raised
              /\ \E i \in Exceeding(call.dist, call.ranreal) :
                    /\ \A j \in Exceeding(call.dist, call.ranreal) : i <= j
                    /\ ret.value.item = call.dist[i][1]
        /\ call.dist = << <<"A", 10>> >> =>
              ret.value = [raised |-> FALSE, item |-> "A"]

\* the third entry returned: the first two cumulative sums do not exceed the draw
C9_Witness ==
    /\ call.fn = "select_from_dist"
    /\ ret.done
    /\ Len(call.dist) = 3
    /\ call.dist[1][2] > 0
    /\ call.dist[2][2] > 0
    /\ call.ranreal >= CumProb(call.dist, 2)
    /\ ~ret.value.raised
    /\ ret.value.item = call.dist[3][1]

\* C11: select_from_dist ends in the error exactly when the draw is not below
\* the total of the table's probabilities; what it returns is a key of the
\* table; for the demand table of do_action it never ends in the error.
C11_ErrorIffDrawNotBelowTotal ==
    /\ (call.fn = "select_from_dist" /\ ret.done) =>
          /\ ret.value.raised <=> call.ranreal >= CumProb(call.dist, Len(call.dist))
          /\ ~ret.value.raised =>
                \E i \in 1 .. Len(call.dist) : ret.value.item = call.dist[i][1]
    /\ (call.fn = "daily_sales" /\ ret.done) =>
          /\ ~ret.value.raised
          /\ ret.value.item \in {3, 5, 7, 10}

\* three entries of total 0.9 and the draw 0.9: the walk is exhausted
C11_Witness ==
    /\ call.fn = "select_from_dist"
    /\ ret.done
    /\ Len(call.dist) = 3
    /\ CumProb(call.dist, 3) = 9
    /\ call.ranreal = 9
    /\ ret.value.raised

----------------------------------------------------------------------------
(* Properties of do_action *)

\* C13: do_action sets the stock to max(0, old stock + buy - demand), with
\* buy = 0 for an action without a 'buy' entry, appends that value to
\* stock_history and returns it in the percept.
C13_StockUpdate ==
    [][LET a           == call'.action
           buy         == IF "buy" \in DOMAIN a THEN a.buy ELSE 0
           daily_sales == tape'[time'][1]
           unclamped   == stock + buy - daily_sales
       IN /\ stock' = IF unclamped > 0 THEN unclamped ELSE 0
          /\ stock_history' = Append(stock_history, stock')
          /\ ret'.done
          /\ ret'.value.stock = stock']_vars

\* an action without 'buy' on an empty stock: 0 + 0 - 10 is clamped to 0
C13_Witness ==
    /\ call.fn = "do_action"
    /\ "buy" \notin DOMAIN call.action
    /\ ret.done
    /\ Len(stock_history) >= 2
    /\ stock_history[Len(stock_history) - 1] = 0
    /\ tape[time][1] = 10
    /\ stock = 0
    /\ ret.value.stock = 0

\* C14: each do_action adds 1 to time and then applies price_delta at the
\* incremented time modulo 10 (index 1 on the first call), so time is the
\* number of calls and len(price_history) - 1; the price is clamped to at
\* least 100 and then recorded.
C14_TimeThenPriceDelta ==
    /\ [](time = Len(price_history) - 1)
    /\ [][LET unclamped == price + price_delta[(time' % 10) + 1] + tape'[time'][2]
           IN /\ time' = time + 1
              /\ time = 0 => unclamped = price - 80 + tape'[1][2]
              /\ price' = IF unclamped > 100 THEN unclamped ELSE 100
              /\ price_history' = Append(price_history, price')]_vars

\* the third call takes 220 - 60 - 160 = 0 up to the floor; the tenth call
\* wraps to price_delta[0] = 10
C14_Witness ==
    /\ time = 10
    /\ price_history[3] = 220
    /\ price_history[4] = 100
    /\ tape[10][2] = 40
    /\ price_history[11] = price_history[10] + 10 + 40

====
